---- MODULE Spec2Model ----
(***************************************************************************)
(* A model of scripts/SDFMap.py: the signed-distance-field map of a 2D     *)
(* SLAM frontend.  The state is the grid store of the SDFMap object (map,  *)
(* priorities, offsets) and the position of the one thread of control      *)
(* inside UpdateMap; the operations are UpdateMap and                      *)
(* GetMapValueAndGradient.                                                 *)
(*                                                                         *)
(* Numbers.  The program computes in floating point; the model computes    *)
(* in exact rational arithmetic.  A rational is a pair <<n, d>> in lowest  *)
(* terms with d > 0.  math.sqrt is applied by the program to compare two   *)
(* lengths or to produce the point-to-line distance; the model compares    *)
(* the squares, and takes the root only of rationals that are squares of   *)
(* rationals (the inputs are chosen so that every fitted slope A has       *)
(* A^2 + 1 a rational square).  Priorities are integer valued floats in    *)
(* the program and integers here.                                          *)
(***************************************************************************)
EXTENDS Integers, Sequences, FiniteSets

(***************************************************************************)
(* Rational arithmetic                                                     *)
(***************************************************************************)
IAbs(i) == IF i < 0 THEN -i ELSE i

RECURSIVE Gcd(_, _)
Gcd(a, b) == IF b = 0 THEN a ELSE Gcd(b, a % b)

Rat(n, d) ==
    LET g == Gcd(IAbs(n), IAbs(d))
        s == IF d < 0 THEN -1 ELSE 1
    IN  <<(s * n) \div g, (s * d) \div g>>

RInt(i) == <<i, 1>>

RNeg(a) == <<-a[1], a[2]>>

RAdd(a, b) ==
    LET g == Gcd(a[2], b[2])
    IN  Rat(a[1] * (b[2] \div g) + b[1] * (a[2] \div g), (a[2] \div g) * b[2])

RSub(a, b) == RAdd(a, RNeg(b))

RMul(a, b) ==
    IF a[1] = 0 \/ b[1] = 0 THEN <<0, 1>>
    ELSE LET g1 == Gcd(IAbs(a[1]), b[2])
             g2 == Gcd(IAbs(b[1]), a[2])
         IN  <<(a[1] \div g1) * (b[1] \div g2), (a[2] \div g2) * (b[2] \div g1)>>

\* a / b for b # 0
RDiv(a, b) == RMul(a, IF b[1] < 0 THEN <<-b[2], -b[1]>> ELSE <<b[2], b[1]>>)

RLt(a, b) ==
    LET g == Gcd(a[2], b[2])
    IN  a[1] * (b[2] \div g) < b[1] * (a[2] \div g)

RLe(a, b) == a = b \/ RLt(a, b)

RAbs(a) == <<IAbs(a[1]), a[2]>>

RSq(a) == RMul(a, a)

\* math.floor
RFloor(a) == a[1] \div a[2]

\* math.ceil
RCeil(a) == -((-a[1]) \div a[2])

\* int(): truncation towards zero
RTrunc(a) == IF a[1] < 0 THEN -((-a[1]) \div a[2]) ELSE a[1] \div a[2]

RECURSIVE ISqrtIn(_, _, _)
ISqrtIn(n, lo, hi) ==
    IF lo >= hi THEN lo
    ELSE LET mid == (lo + hi + 1) \div 2
         IN  IF mid <= n \div mid THEN ISqrtIn(n, mid, hi) ELSE ISqrtIn(n, lo, mid - 1)

\* the integer square root, floor(sqrt(n)), n >= 0
ISqrt(n) == IF n = 0 THEN 0 ELSE ISqrtIn(n, 1, IF n < 46340 THEN n ELSE 46340)

IsSquare(a) == a[1] >= 0 /\ ISqrt(a[1]) * ISqrt(a[1]) = a[1] /\ ISqrt(a[2]) * ISqrt(a[2]) = a[2]

\* math.sqrt of a rational that is the square of a rational
RSqrt(a) == <<ISqrt(a[1]), ISqrt(a[2])>>

(***************************************************************************)
(* Construction parameters and defaults (SDFMap.__init__)                  *)
(***************************************************************************)
\* discretization = 0.5: the edge length of a map cell in metres
disc == <<1, 2>>

\* k = 3.0: the radius in metres within which vertices are updated
k == <<3, 1>>

\* size: the starting extents of the map in metres, a 1 m x 1 m map
size == <<(<<1, 1>>), (<<1, 1>>)>>

\* 0.1, the distance of a cell that was never written
DefaultDistance == <<1, 10>>

\* 100.0, the priority of a cell that was never written
DefaultPriority == 100

\* A_p = 1000.0, the slope standing for a vertical robot-to-vertex line
VerticalSlope == 1000

num_x_cells == RTrunc(RDiv(size[1], disc))

num_y_cells == RTrunc(RDiv(size[2], disc))

(***************************************************************************)
(* Coordinates.  A point is a homogeneous triple <<x, y, 1>> of rationals  *)
(* in metres; a pose is a 3x3 matrix of rationals; a vertex is a pair of   *)
(* integers.                                                               *)
(***************************************************************************)
Dot3(r, p) == RAdd(RAdd(RMul(r[1], p[1]), RMul(r[2], p[2])), RMul(r[3], p[3]))

\* np.dot(scan, pose.T): every scan point taken to the global frame
TransformScan(scan, pose) ==
    [i \in 1..Len(scan) |-> <<Dot3(pose[1], scan[i]), Dot3(pose[2], scan[i]), Dot3(pose[3], scan[i])>>]

PointToMapCoordinates(point) == <<RDiv(point[1], disc), RDiv(point[2], disc)>>

\* <<x_min, x_max, y_min, y_max>>
GetBoundingVertices(point) ==
    LET c == PointToMapCoordinates(point)
        x_min == RFloor(c[1])
        y_min == RFloor(c[2])
    IN  <<x_min, x_min + 1, y_min, y_min + 1>>

(***************************************************************************)
(* GroupPointsByCell                                                       *)
(***************************************************************************)
\* a variant of InCell that tests the column of the cell only
InCellColumn(bv, next_point) ==
    /\ RLe(RInt(bv[1]), PointToMapCoordinates(next_point)[1])
    /\ RLt(PointToMapCoordinates(next_point)[1], RInt(bv[2]))

\* the test of lines 316-317: next_point lies in the cell bounded by bv
InCell(bv, next_point) ==
    /\ RLe(RInt(bv[1]), PointToMapCoordinates(next_point)[1])
    /\ RLt(PointToMapCoordinates(next_point)[1], RInt(bv[2]))
    /\ RLe(RInt(bv[3]), PointToMapCoordinates(next_point)[2])
    /\ RLt(PointToMapCoordinates(next_point)[2], RInt(bv[4]))

\* the indices the inner loop claims for the group opened at point_idx
ClaimedBy(points, grouped, point_idx) ==
    {next_idx \in (point_idx + 1)..Len(points) :
        ~grouped[next_idx] /\ InCell(GetBoundingVertices(points[point_idx]), points[next_idx])}

\* the elements of a set of indices in increasing order
RECURSIVE Ascending(_)
Ascending(S) ==
    IF S = {} THEN <<>>
    ELSE LET m == CHOOSE i \in S : \A j \in S : i <= j
         IN  <<m>> \o Ascending(S \ {m})

\* the flags after the group opened at point_idx was collected
MarkGrouped(grouped, point_idx, claimed) ==
    [j \in DOMAIN grouped |-> grouped[j] \/ j = point_idx \/ j \in claimed]

RECURSIVE GroupLoop(_, _, _, _)
GroupLoop(points, point_idx, grouped, point_groups) ==
    IF point_idx > Len(points) THEN point_groups
    ELSE IF grouped[point_idx] THEN GroupLoop(points, point_idx + 1, grouped, point_groups)
    ELSE LET claimed == ClaimedBy(points, grouped, point_idx)
             order == Ascending(claimed)
             cur_group == <<points[point_idx]>> \o [n \in 1..Len(order) |-> points[order[n]]]
         IN  GroupLoop(points, point_idx + 1, MarkGrouped(grouped, point_idx, claimed),
                       Append(point_groups, cur_group))

GroupPointsByCell(points) ==
    GroupLoop(points, 1, [j \in 1..Len(points) |-> FALSE], <<>>)

(***************************************************************************)
(* LinearFit                                                               *)
(***************************************************************************)
\* the test of lines 261-263: neighbor is borrowed as a second fit point
IsAdjacent(neighbor, point) ==
    /\ RLt(RAbs(RSub(neighbor[1], point[1])), RMul(disc, RInt(2)))
    /\ RLt(RAbs(RSub(neighbor[2], point[2])), RMul(disc, RInt(2)))
    /\ neighbor[1] # point[1]
    /\ neighbor[2] # point[2]

\* the points after the neighbour search of lines 258-265
WithNeighbors(full_scan, points) ==
    IF Len(points) = 1
    THEN points \o SelectSeq(full_scan, LAMBDA neighbor : IsAdjacent(neighbor, points[1]))
    ELSE points

\* the points lie on one line that is not vertical
Collinear(points) ==
    \E i \in 1..Len(points) :
        /\ points[i][1] # points[1][1]
        /\ LET s == RDiv(RSub(points[i][2], points[1][2]), RSub(points[i][1], points[1][1]))
           IN  \A j \in 1..Len(points) :
                   RSub(points[j][2], points[1][2]) = RMul(s, RSub(points[j][1], points[1][1]))

\* scipy.odr with a polynomial of degree 1, for points that lie on one
\* line: the fit is that line.  <<b, A>> as in output.beta
OrthogonalRegression(points) ==
    LET n == CHOOSE m \in 1..Len(points) : points[m][1] # points[1][1]
        A == RDiv(RSub(points[n][2], points[1][2]), RSub(points[n][1], points[1][1]))
    IN  <<RSub(points[1][2], RMul(A, points[1][1])), A>>

\* lines 269-270: the line through the point, perpendicular to the line
\* from the robot to the point
PerpendicularFit(point, pose) ==
    LET A == RMul(RInt(-1), RDiv(RSub(point[1], pose[1][3]), RSub(point[2], pose[2][3])))
    IN  <<RSub(point[2], RMul(A, point[1])), A>>

\* A, b (in cells), using_adjacent, the points the line was fitted to and
\* the points list as LinearFit leaves it
LinearFit(full_scan, points, pose) ==
    LET fitted == WithNeighbors(full_scan, points)
        using_adjacent == Len(fitted) > Len(points)
        beta == IF Len(fitted) = 1 THEN PerpendicularFit(fitted[1], pose)
                ELSE OrthogonalRegression(fitted)
    IN  [A |-> beta[2],
         b |-> RDiv(beta[1], disc),
         using_adjacent |-> using_adjacent,
         fitted |-> fitted,
         points |-> IF using_adjacent THEN SubSeq(fitted, 1, 1) ELSE fitted]

(***************************************************************************)
(* GetUpdateVertices                                                       *)
(***************************************************************************)
k_cells == RTrunc(RDiv(k, disc))

\* lines 231-240: the vertex <<x, y>> is kept.  dist >= k_cells is decided
\* on the squares
KeepVertex(x, y, x_c, y_c, A_prime, b_lower, b_upper) ==
    LET dist2 == RAdd(RSq(RSub(RInt(x), x_c)), RSq(RSub(RInt(y), y_c)))
        Ax == RMul(A_prime, RInt(x))
    IN  /\ ~RLe(RInt(k_cells * k_cells), dist2)
        /\ ~(RLt(RAdd(Ax, b_upper), RInt(y)) \/ RLt(RInt(y), RAdd(Ax, b_lower)))

\* the vertices to update around the cell of point, in the order of the
\* two nested loops (x outer, y inner)
GetUpdateVertices(A, point) ==
    LET bv == GetBoundingVertices(point)
        x_min == RInt(bv[1])
        x_max == RInt(bv[2])
        y_min == RInt(bv[3])
        y_max == RInt(bv[4])
        x_c == RDiv(RAdd(x_max, x_min), RInt(2))
        y_c == RDiv(RAdd(y_max, y_min), RInt(2))
        A_prime == RMul(RInt(-1), RDiv(RInt(1), A))
        b_lower == IF RLt(A_prime, RInt(0)) THEN RSub(y_min, RMul(A_prime, x_min))
                   ELSE RSub(y_min, RMul(A_prime, x_max))
        b_upper == IF RLt(A_prime, RInt(0)) THEN RSub(y_max, RMul(A_prime, x_max))
                   ELSE RSub(y_max, RMul(A_prime, x_min))
        x_range_min == RFloor(RSub(x_c, RInt(k_cells)))
        x_range_max == RCeil(RAdd(x_c, RInt(k_cells)))
        y_range_min == RFloor(RSub(y_c, RInt(k_cells)))
        y_range_max == RCeil(RAdd(y_c, RInt(k_cells)))
        ny == y_range_max - y_range_min
        nx == x_range_max - x_range_min
        candidates == [n \in 1..(nx * ny) |->
                          <<x_range_min + ((n - 1) \div ny), y_range_min + ((n - 1) % ny)>>]
    IN  SelectSeq(candidates,
                  LAMBDA v : KeepVertex(v[1], v[2], x_c, y_c, A_prime, b_lower, b_upper))

(***************************************************************************)
(* GetDistAndPriority                                                      *)
(***************************************************************************)
\* lines 137-140: the orthogonal distance between the vertex and the line
\* y = A x + b, in cells
OrthogonalDistance(vertex, A, b) ==
    LET b_1 == RSub(RInt(vertex[2]), RMul(A, RInt(vertex[1])))
        A2 == RSq(A)
        y_diff == RMul(RSub(b, b_1), RSub(RInt(1), RDiv(A2, RAdd(A2, RInt(1)))))
        x_diff == RMul(RSub(b_1, b), RDiv(A, RAdd(A2, RInt(1))))
    IN  RSqrt(RAdd(RSq(y_diff), RSq(x_diff)))

\* lines 153-157: the slope of the line from the robot to the vertex
RaySlope(cell_dist_x, cell_dist_y) ==
    LET A_p == IF cell_dist_x # RInt(0) THEN RDiv(cell_dist_y, cell_dist_x)
               ELSE RInt(VerticalSlope)
    IN  IF RLt(cell_dist_x, RInt(0)) THEN RMul(A_p, RInt(-1)) ELSE A_p

\* lines 146-173: line_dist < cell_dist, decided on the squares.  With
\* A = A_p the program divides by zero: x_p is inf or nan and the
\* comparison is false
BeyondLine(vertex, A, b, pose) ==
    LET pose_x == RDiv(pose[1][3], disc)
        pose_y == RDiv(pose[2][3], disc)
        cell_dist_x == RSub(RInt(vertex[1]), pose_x)
        cell_dist_y == RSub(RInt(vertex[2]), pose_y)
        cell_dist2 == RAdd(RSq(cell_dist_x), RSq(cell_dist_y))
        A_p == RaySlope(cell_dist_x, cell_dist_y)
        b_p == RSub(pose_y, RMul(A_p, pose_x))
        x_p == RDiv(RSub(b_p, b), RSub(A, A_p))
        y_p == RAdd(RMul(A_p, x_p), b_p)
        line_dist2 == RAdd(RSq(RSub(pose_x, x_p)), RSq(RSub(pose_y, y_p)))
    IN  IF A = A_p THEN FALSE ELSE RLt(line_dist2, cell_dist2)

\* lines 137-176: the signed distance of the update of vertex, in metres
SignedDistance(vertex, A, b, pose) ==
    LET dist == OrthogonalDistance(vertex, A, b)
    IN  RMul(IF BeyondLine(vertex, A, b, pose) THEN RMul(dist, RInt(-1)) ELSE dist, disc)

IMin(a, b) == IF a < b THEN a ELSE b

IMax(a, b) == IF a > b THEN a ELSE b

\* lines 180-183: the layers of vertices between vertex and the cell of point
UpdatePriority(vertex, point) ==
    LET bv == GetBoundingVertices(point)
    IN  IMax(IMin(IAbs(bv[1] - vertex[1]), IAbs(bv[2] - vertex[1])),
             IMin(IAbs(bv[3] - vertex[2]), IAbs(bv[4] - vertex[2])))

GetDistAndPriority(vertices, A, b, pose, point) ==
    [updates |-> [i \in 1..Len(vertices) |-> SignedDistance(vertices[i], A, b, pose)],
     priorities |-> [i \in 1..Len(vertices) |-> UpdatePriority(vertices[i], point)]]

(***************************************************************************)
(* The grid store: [map, priorities, offsets].  map and priorities are   *)
(* the two numpy arrays, a sequence of rows (axis 0 is x, axis 1 is y);    *)
(* storage index i of numpy is position i + 1 of the sequence.             *)
(***************************************************************************)
Shape(arr) == <<Len(arr), Len(arr[1])>>

\* np.insert(arr, idx, val, axis): one row (axis 1, numpy's 0) or one
\* column (axis 2, numpy's 1) of val before storage index idx
NpInsert(arr, idx, val, axis) ==
    IF axis = 1
    THEN SubSeq(arr, 1, idx) \o <<[j \in 1..Len(arr[1]) |-> val]>> \o SubSeq(arr, idx + 1, Len(arr))
    ELSE [i \in 1..Len(arr) |->
             SubSeq(arr[i], 1, idx) \o <<val>> \o SubSeq(arr[i], idx + 1, Len(arr[i]))]

\* a variant of ExpandAmount that adds one row or column less
ExpandAmountShort(v, shape) ==
    IF v < 0 THEN IAbs(v)
    ELSE IF v >= shape THEN v - shape
    ELSE 0

\* lines 99-104: the number of rows or columns to add for the storage
\* position v = point[axis] + offsets[axis]
ExpandAmount(v, shape) ==
    IF v < 0 THEN IAbs(v) + 1
    ELSE IF v >= shape THEN v - shape + 1
    ELSE 0

\* a variant of GrowFront that leaves the offset as it is
GrowFrontFixedOffset(g, axis) ==
    [map |-> NpInsert(g.map, 0, DefaultDistance, axis),
     priorities |-> NpInsert(g.priorities, 0, DefaultPriority, axis),
     offsets |-> g.offsets]

\* lines 108-111: one insertion in front
GrowFront(g, axis) ==
    [map |-> NpInsert(g.map, 0, DefaultDistance, axis),
     priorities |-> NpInsert(g.priorities, 0, DefaultPriority, axis),
     offsets |-> [g.offsets EXCEPT ![axis] = @ + 1]]

\* a variant of GrowBack that inserts at storage index 0
GrowBackAtFront(g, axis) ==
    [map |-> NpInsert(g.map, 0, DefaultDistance, axis),
     priorities |-> NpInsert(g.priorities, 0, DefaultPriority, axis),
     offsets |-> g.offsets]

\* lines 113-114: one insertion at the end
GrowBack(g, axis) ==
    [map |-> NpInsert(g.map, Shape(g.map)[axis], DefaultDistance, axis),
     priorities |-> NpInsert(g.priorities, Shape(g.priorities)[axis], DefaultPriority, axis),
     offsets |-> g.offsets]

\* lines 107-114: for i in range(amount)
RECURSIVE Grow(_, _, _, _)
Grow(g, axis, direction, amount) ==
    IF amount <= 0 THEN g
    ELSE Grow(IF direction < 0 THEN GrowFront(g, axis) ELSE GrowBack(g, axis),
              axis, direction, amount - 1)

\* one pass of the loop over the axes
ExpandAxis(g, axis, coord) ==
    LET v == coord + g.offsets[axis]
        shape == Shape(g.map)[axis]
        direction == IF v < 0 THEN -1 ELSE IF v >= shape THEN 1 ELSE 0
    IN  Grow(g, axis, direction, ExpandAmount(v, shape))

ExpandMap(g, x, y) == ExpandAxis(ExpandAxis(g, 1, x), 2, y)

\* numpy indexing: a negative index counts from the end, an index outside
\* -n .. n-1 raises IndexError
IndexValid(i, n) == -n <= i /\ i < n

PyIndex(i, n) == IF i < 0 THEN i + n ELSE i

\* the access record of an array access at logical <<x, y>> in the grid e:
\* the storage index and the shape at the access
Located(e, x, y) ==
    [g |-> e,
     access |-> [ix |-> x + e.offsets[1], iy |-> y + e.offsets[2],
                 sx |-> Shape(e.map)[1], sy |-> Shape(e.map)[2]]]

\* the array access of lines 358, 362, 366, 370 after ExpandMap: the grown
\* grid, the storage index and the shape at the access
Locate(g, x, y) == Located(ExpandMap(g, x, y), x, y)

AccessValid(a) == IndexValid(a.ix, a.sx) /\ IndexValid(a.iy, a.sy)

ReadAt(arr, a) == arr[PyIndex(a.ix, a.sx) + 1][PyIndex(a.iy, a.sy) + 1]

WriteAt(arr, a, val) ==
    [arr EXCEPT ![PyIndex(a.ix, a.sx) + 1][PyIndex(a.iy, a.sy) + 1] = val]

\* self.map[...] at the located access l
ReadMap(l) ==
    [g |-> l.g, access |-> l.access, ok |-> AccessValid(l.access),
     val |-> IF AccessValid(l.access) THEN ReadAt(l.g.map, l.access) ELSE DefaultDistance]

\* self.map[...] = val at the located access l
WriteMap(l, val) ==
    [g |-> IF AccessValid(l.access)
           THEN [l.g EXCEPT !.map = WriteAt(l.g.map, l.access, val)] ELSE l.g,
     access |-> l.access, ok |-> AccessValid(l.access), val |-> val]

\* self.priorities[...] at the located access l
ReadPriority(l) ==
    [g |-> l.g, access |-> l.access, ok |-> AccessValid(l.access),
     val |-> IF AccessValid(l.access) THEN ReadAt(l.g.priorities, l.access)
             ELSE DefaultPriority]

\* self.priorities[...] = val at the located access l
WritePriority(l, val) ==
    [g |-> IF AccessValid(l.access)
           THEN [l.g EXCEPT !.priorities = WriteAt(l.g.priorities, l.access, val)] ELSE l.g,
     access |-> l.access, ok |-> AccessValid(l.access), val |-> val]

\* each accessor yields the grid after the call, the access it made,
\* whether the access was valid, and the value read or written
GetMapValue(g, x, y) == ReadMap(Locate(g, x, y))

SetMapValue(g, x, y, val) == WriteMap(Locate(g, x, y), val)

GetPriority(g, x, y) == ReadPriority(Locate(g, x, y))

SetPriority(g, x, y, val) == WritePriority(Locate(g, x, y), val)

\* a variant of UpdateCase that overwrites whenever the priorities differ
UpdateCaseAlways(new_priority, old_priority) ==
    IF new_priority # old_priority THEN "overwrite" ELSE "average"

\* lines 75, 79: which of the three cases the update falls in
UpdateCase(new_priority, old_priority) ==
    IF new_priority < old_priority THEN "overwrite"
    ELSE IF new_priority = old_priority THEN "average"
    ELSE "discard"

\* a variant of MeanDistance that keeps the new measurement only
NewDistanceOnly(new_distance, old_distance) == new_distance

\* a variant of MeanDistance that does not halve the sum
SumDistance(new_distance, old_distance) == RAdd(new_distance, old_distance)

\* line 81
MeanDistance(new_distance, old_distance) == RDiv(RAdd(new_distance, old_distance), RInt(2))

\* two accessor calls one after the other: the second is not reached when
\* the first raised
Sequenced(first, second) ==
    IF ~first.ok THEN [g |-> first.g, accesses |-> <<first.access>>, ok |-> FALSE]
    ELSE [g |-> second.g, accesses |-> <<first.access, second.access>>, ok |-> second.ok]

\* lines 76-77, after SetMapValue returned w
ThenSetPriority(w, vertex, new_priority) ==
    Sequenced(w, SetPriority(w.g, vertex[1], vertex[2], new_priority))

\* lines 81-82, after GetMapValue returned r
ThenSetMean(r, vertex, new_distance) ==
    Sequenced(r, SetMapValue(r.g, vertex[1], vertex[2], MeanDistance(new_distance, r.val)))

\* lines 75-82: what the update of one vertex does to the grid.  The
\* result carries the accesses made and whether all of them were valid
ResolveUpdate(g, vertex, old_priority, new_priority, new_distance) ==
    IF UpdateCase(new_priority, old_priority) = "overwrite"
    THEN ThenSetPriority(SetMapValue(g, vertex[1], vertex[2], new_distance), vertex, new_priority)
    ELSE IF UpdateCase(new_priority, old_priority) = "average"
    THEN ThenSetMean(GetMapValue(g, vertex[1], vertex[2]), vertex, new_distance)
    ELSE [g |-> g, accesses |-> <<>>, ok |-> TRUE]

(***************************************************************************)
(* GetMapValueAndGradient                                                  *)
(***************************************************************************)
\* lines 395-398: the four bounding vertices, counter-clockwise
CornerPoints(point) ==
    LET bv == GetBoundingVertices(point)
    IN  <<(<<bv[1], bv[3]>>), (<<bv[2], bv[3]>>), (<<bv[2], bv[4]>>), (<<bv[1], bv[4]>>)>>

\* lines 400-402: the four calls of GetMapValue, one after the other; the
\* reads stop at the first invalid access
RECURSIVE ReadCorners(_, _, _, _, _)
\* line 402, after GetMapValue returned r for corner i
ReadCorner(r, m_points, i, m, accesses) ==
    IF ~r.ok THEN [g |-> r.g, m |-> m, accesses |-> Append(accesses, r.access), ok |-> FALSE]
    ELSE ReadCorners(r.g, m_points, i + 1, Append(m, r.val), Append(accesses, r.access))

ReadCorners(g, m_points, i, m, accesses) ==
    IF i > Len(m_points) THEN [g |-> g, m |-> m, accesses |-> accesses, ok |-> TRUE]
    ELSE ReadCorner(GetMapValue(g, m_points[i][1], m_points[i][2]), m_points, i, m, accesses)

\* np.sign
RSign(a) == IF a[1] > 0 THEN 1 ELSE IF a[1] < 0 THEN -1 ELSE 0

\* lines 411-414: the sign with zero counted as positive
CornerSign(a) == IF RSign(a) = 0 THEN 1 ELSE RSign(a)

\* m is indexed from 0 in the program; m[-1] is m[3]
Corner(m, idx) == m[(idx % 4) + 1]

SignChanges(m) ==
    Cardinality({cell_idx \in 0..3 : CornerSign(Corner(m, cell_idx)) # CornerSign(Corner(m, cell_idx - 1))})

NegCount(m) == Cardinality({cell_idx \in 0..3 : CornerSign(Corner(m, cell_idx)) = -1})

\* line 424: the bilinear interpolation, signed
Bilinear(m, tx, ty) ==
    LET one == RInt(1)
    IN  RAdd(RMul(ty, RAdd(RMul(Corner(m, 2), tx), RMul(Corner(m, 3), RSub(one, tx)))),
             RMul(RSub(one, ty), RAdd(RMul(Corner(m, 1), tx), RMul(Corner(m, 0), RSub(one, tx)))))

\* lines 429-431: the finite-difference gradient
PlainGradient(m, tx, ty, sign) ==
    LET one == RInt(1)
        g0 == RAdd(RMul(ty, RSub(Corner(m, 3), Corner(m, 2))),
                   RMul(RSub(one, ty), RSub(Corner(m, 1), Corner(m, 0))))
        g1 == RAdd(RMul(tx, RSub(Corner(m, 1), Corner(m, 2))),
                   RMul(RSub(one, tx), RSub(Corner(m, 0), Corner(m, 3))))
    IN  <<RMul(g0, RInt(sign)), RMul(g1, RInt(sign))>>

\* the largest index of a set of corner indices (the loops of lines
\* 456-468 keep the last match)
LastOf(S) == CHOOSE i \in S : \A j \in S : j <= i

\* lines 439-468: pairs[pair_idx] = <<index of the plus corner, index of
\* the minus corner>>, indices from 0
AllocatePairs(m) ==
    LET neg == {i \in 0..3 : RSign(Corner(m, i)) < 0}
        pos == (0..3) \ neg
    IN  IF NegCount(m) = 2
        THEN LET n == Ascending(neg)
                 q == Ascending(pos)
             IN  IF IAbs(q[1] - n[1]) # 1
                 THEN <<(<<q[1], n[2]>>), (<<q[2], n[1]>>)>>
                 ELSE <<(<<q[1], n[1]>>), (<<q[2], n[2]>>)>>
        ELSE IF NegCount(m) = 1
        THEN LET i == LastOf(neg)
             IN  <<(<<(i + 1) % 4, i>>), (<<(i - 1) % 4, i>>)>>
        ELSE LET i == LastOf(pos)
             IN  <<(<<i, (i + 1) % 4>>), (<<i, (i - 1) % 4>>)>>

\* lines 485-496: the zero crossing on the edge between the two corners of
\* a pair
ZeroCrossing(m, m_points, pair) ==
    LET m_plus == Corner(m, pair[1])
        m_minus == Corner(m, pair[2])
        plus == m_points[pair[1] + 1]
        minus == m_points[pair[2] + 1]
        t == RDiv(m_plus, RSub(m_plus, m_minus))
    IN  <<RAdd(RInt(plus[1]), RMul(t, RInt(minus[1] - plus[1]))),
          RAdd(RInt(plus[2]), RMul(t, RInt(minus[2] - plus[2])))>>

\* lines 522-525: np.linalg.matrix_rank(A) < 2 for
\* A = [[a, c], [-c, a]], a = p1.x - p0.x, c = p1.y - p0.y: both singular
\* values of A are sqrt(a^2 + c^2), so the rank is 2 unless a = c = 0
SingularSystem(p) == p[1] = p[2]

\* the direction of a vector of rationals: the shortest vector of integers
\* that is a positive multiple of it, <<0, 0>> for the zero vector.  It
\* stands for the vector divided by its norm (lines 545-546)
Direction(v) ==
    LET l == (v[1][2] \div Gcd(v[1][2], v[2][2])) * v[2][2]
        n1 == v[1][1] * (l \div v[1][2])
        n2 == v[2][1] * (l \div v[2][2])
        g == Gcd(IAbs(n1), IAbs(n2))
    IN  IF g = 0 THEN <<0, 0>> ELSE <<n1 \div g, n2 \div g>>

\* lines 522-546: the direction of q - d, where q solves
\*   [[a, c], [-c, a]] q = [d . (a, c), p0 . (-c, a)],
\* a = p1.x - p0.x, c = p1.y - p0.y: q is the foot of the perpendicular
\* from d on the line through p0 and p1, so q - d is the normal
\* n = (-c, a) scaled by -((d - p0) . n) / (n . n)
FootDirection(p, d) ==
    LET a == RSub(p[2][1], p[1][1])
        c == RSub(p[2][2], p[1][2])
        n == Direction(<<RNeg(c), a>>)
        s == RAdd(RMul(RSub(d[1], p[1][1]), RInt(n[1])), RMul(RSub(d[2], p[1][2]), RInt(n[2])))
    IN  <<-RSign(s) * n[1], -RSign(s) * n[2]>>

\* lines 404-547 on the four corner values m.  With a singular system
\* np.linalg.inv raises LinAlgError (line 540; under Python 3 the
\* diagnostic of line 526 raises TypeError before it).  grad is the
\* direction of the gradient returned
ValueAndGradient(m, m_points, point) ==
    LET c == PointToMapCoordinates(point)
        tx == RSub(c[1], RInt(m_points[1][1]))
        ty == RSub(c[2], RInt(m_points[1][2]))
        signed == Bilinear(m, tx, ty)
        value == RAbs(signed)
        pairs == AllocatePairs(m)
        p == <<ZeroCrossing(m, m_points, pairs[1]), ZeroCrossing(m, m_points, pairs[2])>>
    IN  IF SignChanges(m) # 2
        THEN [raised |-> "none", value |-> value,
              grad |-> Direction(PlainGradient(m, tx, ty, RSign(signed))),
              branch |-> "plain"]
        ELSE IF SingularSystem(p)
        THEN [raised |-> "LinAlgError", value |-> value, grad |-> <<0, 0>>,
              branch |-> "ambiguous"]
        ELSE [raised |-> "none", value |-> value, grad |-> FootDirection(p, c), branch |-> "ambiguous"]

(***************************************************************************)
(* Inputs.  Coordinates are given in tenths of a metre.  The robot stands  *)
(* at (0.3, 0.4); PoseA has no rotation, PoseB a rotation by 90 degrees.   *)
(* The scans are chosen so that every fitted line has a slope A with       *)
(* A # 0 and A^2 + 1 a rational square (see WellConditioned).              *)
(* The robot stands on no grid line, so cell_dist_x is never 0 and the     *)
(* slope VerticalSlope of line 153 is not taken.                           *)
(***************************************************************************)
\* the number of calls of UpdateMap and GetMapValueAndGradient in a run
MaxCalls == 2

Pt(x, y) == <<Rat(x, 10), Rat(y, 10), RInt(1)>>

PoseA ==
    <<(<<RInt(1), RInt(0), Rat(3, 10)>>), (<<RInt(0), RInt(1), Rat(4, 10)>>),
      (<<RInt(0), RInt(0), RInt(1)>>)>>

PoseB ==
    <<(<<RInt(0), RInt(-1), Rat(3, 10)>>), (<<RInt(1), RInt(0), Rat(4, 10)>>),
      (<<RInt(0), RInt(0), RInt(1)>>)>>

\* query points in the global frame
QueryPoints == {Pt(16, 21), Pt(-7, -7), Pt(7, 9), Pt(12, 3), Pt(56, 56)}

\* the fit of the group is one the model computes exactly
FitDefined(full_scan, points, pose) ==
    LET fitted == WithNeighbors(full_scan, points)
    IN  /\ IF Len(fitted) = 1
           THEN fitted[1][1] # pose[1][3] /\ fitted[1][2] # pose[2][3]
           ELSE Collinear(fitted) /\ fitted[2][2] # fitted[1][2]
        /\ IsSquare(RAdd(RSq(LinearFit(full_scan, points, pose).A), RInt(1)))

WellConditioned(in) ==
    LET global == TransformScan(in.scan, in.pose)
        groups == GroupPointsByCell(global)
    IN  \A i \in 1..Len(groups) : FitDefined(global, groups[i], in.pose)

\* scans in the sensor frame with the pose they were taken at; in the
\* global frame they are, in this order:
\*   <<(1.5, 2.0)>>                       one point, on a grid vertex
\*   <<(0.6, 0.8), (1.5, 2.0)>>           two cells far apart
\*   <<(1.5, 2.0), (1.5, 1.3)>>           two cells, the points share x
\*   <<(0.6, 0.8), (0.9, 0.4)>>           two cells, each point borrows the other
\*   <<(1.6, 2.0), (0.6, 0.8), (1.9, 2.4)>>  two points of one cell around another
\*   <<(0.0, 0.8)>>                       one point, left of the robot
Scans ==
    {[scan |-> <<Pt(16, -12)>>, pose |-> PoseB],
     [scan |-> <<Pt(3, 4), Pt(12, 16)>>, pose |-> PoseA],
     [scan |-> <<Pt(12, 16), Pt(12, 9)>>, pose |-> PoseA],
     [scan |-> <<Pt(3, 4), Pt(6, 0)>>, pose |-> PoseA],
     [scan |-> <<Pt(13, 16), Pt(3, 4), Pt(16, 20)>>, pose |-> PoseA],
     [scan |-> <<Pt(4, 3)>>, pose |-> PoseB]}

\* the inputs of UpdateMap
Inputs == {in \in Scans : WellConditioned(in)}

(***************************************************************************)
(* State                                                                   *)
(***************************************************************************)
VARIABLES
    map,             \* self.map
    priorities,      \* self.priorities
    offsets,         \* self.offsets
    pc,              \* where the thread of control is: "idle" between calls,
                     \* "fit" at line 58, "gate" at line 70, "write" at line 75
    pose,            \* UpdateMap: the pose argument
    global_scan,     \* UpdateMap: global_scan
    point_groups,    \* UpdateMap: point_groups
    group_idx,       \* UpdateMap: the position of the loop of line 56
    fit,             \* UpdateMap: what LinearFit returned for the group (A, b)
                     \* and its locals using_adjacent, points
    vertices,        \* UpdateMap: vertices
    updates,         \* UpdateMap: updates
    new_priorities,  \* UpdateMap: new_priorities
    update_idx,      \* UpdateMap: the position of the loop of line 66
    old_priority,    \* UpdateMap: old_priority
    result,          \* what the last call of GetMapValueAndGradient returned
    raised,          \* the exception the last call ended with, or "none"
    accesses,        \* history: the array accesses of the last step
    calls,           \* history: the calls made so far, with their arguments
    snap             \* history: the grid when the first call returned

vars ==
    <<map, priorities, offsets, pc, pose, global_scan, point_groups, group_idx, fit,
      vertices, updates, new_priorities, update_idx, old_priority, result, raised,
      accesses, calls, snap>>

grid == [map |-> map, priorities |-> priorities, offsets |-> offsets]

locals == <<pose, global_scan, point_groups, group_idx, fit, vertices, updates,
            new_priorities, update_idx, old_priority>>

NoFit == [A |-> RInt(0), b |-> RInt(0), using_adjacent |-> FALSE, fitted |-> <<>>, points |-> <<>>]

NoResult == [raised |-> "none", value |-> RInt(0), grad |-> <<0, 0>>, branch |-> "none"]

\* SDFMap.__init__
Init ==
    /\ map = [i \in 1..num_x_cells |-> [j \in 1..num_y_cells |-> DefaultDistance]]
    /\ priorities = [i \in 1..num_x_cells |-> [j \in 1..num_y_cells |-> DefaultPriority]]
    /\ offsets = <<0, 0>>
    /\ pc = "idle"
    /\ pose = PoseA
    /\ global_scan = <<>>
    /\ point_groups = <<>>
    /\ group_idx = 0
    /\ fit = NoFit
    /\ vertices = <<>>
    /\ updates = <<>>
    /\ new_priorities = <<>>
    /\ update_idx = 0
    /\ old_priority = DefaultPriority
    /\ result = NoResult
    /\ raised = "none"
    /\ accesses = <<>>
    /\ calls = <<>>
    /\ snap = grid

SetGrid(g) ==
    /\ map' = g.map
    /\ priorities' = g.priorities
    /\ offsets' = g.offsets

\* the call, the n-th of the run, returns (or ends with an exception)
\* leaving the grid g
Return(g, n) ==
    /\ pc' = "idle"
    /\ snap' = IF n = 1 THEN g ELSE snap

(***************************************************************************)
(* UpdateMap                                                               *)
(***************************************************************************)
\* lines 47-53: the scan is transformed and grouped
UpdateMapBegin(in) ==
    /\ pc = "idle"
    /\ Len(calls) < MaxCalls
    /\ calls' = Append(calls, [op |-> "UpdateMap", scan |-> in.scan, pose |-> in.pose])
    /\ pose' = in.pose
    /\ global_scan' = TransformScan(in.scan, in.pose)
    /\ point_groups' = GroupPointsByCell(global_scan')
    /\ group_idx' = 1
    /\ pc' = "fit"
    /\ raised' = "none"
    /\ accesses' = <<>>
    /\ UNCHANGED <<map, priorities, offsets, fit, vertices, updates, new_priorities,
                   update_idx, old_priority, result, snap>>

\* the loop of line 66 is over: the next group, or the end of the call
NextGroup ==
    IF group_idx < Len(point_groups)
    THEN pc' = "fit" /\ group_idx' = group_idx + 1 /\ snap' = snap
    ELSE Return(grid', Len(calls)) /\ group_idx' = group_idx

\* lines 58-62 done for the group: f is what LinearFit returned, vs the
\* vertices and dp the updates and priorities; the loop of line 66 starts
StartUpdates(f, vs, dp) ==
    /\ fit' = f
    /\ point_groups' = [point_groups EXCEPT ![group_idx] = f.points]
    /\ vertices' = vs
    /\ updates' = dp.updates
    /\ new_priorities' = dp.priorities
    /\ update_idx' = 1
    /\ UNCHANGED <<map, priorities, offsets>>
    /\ IF vs = <<>> THEN NextGroup
       ELSE pc' = "gate" /\ group_idx' = group_idx /\ snap' = snap

\* line 62
WithVertices(f, vs) == StartUpdates(f, vs, GetDistAndPriority(vs, f.A, f.b, pose, f.points[1]))

\* line 60
WithFit(f) == WithVertices(f, GetUpdateVertices(f.A, f.points[1]))

\* lines 56-62: the line, the vertices and the updates of one group
FitGroup ==
    /\ pc = "fit"
    /\ WithFit(LinearFit(global_scan, point_groups[group_idx], pose))
    /\ accesses' = <<>>
    /\ UNCHANGED <<pose, global_scan, old_priority, result, raised, calls>>

\* line 70, GetPriority returned r (or raised)
GotPriority(r) ==
    /\ SetGrid(r.g)
    /\ accesses' = <<r.access>>
    /\ IF r.ok
       THEN /\ old_priority' = r.val
            /\ pc' = "write"
            /\ UNCHANGED <<raised, snap>>
       ELSE /\ old_priority' = old_priority
            /\ raised' = "IndexError"
            /\ Return(r.g, Len(calls))

\* lines 68-72: old_priority = self.GetPriority(vertex[0], vertex[1])
GateVertex ==
    /\ pc = "gate"
    /\ GotPriority(GetPriority(grid, vertices[update_idx][1], vertices[update_idx][2]))
    /\ UNCHANGED <<pose, global_scan, point_groups, group_idx, fit, vertices, updates,
                   new_priorities, update_idx, result, calls>>

\* lines 75-82 done with the outcome r: the next vertex, the next group or
\* the end of the call
Resolved(r) ==
    /\ SetGrid(r.g)
    /\ accesses' = r.accesses
    /\ IF ~r.ok
       THEN raised' = "IndexError" /\ Return(r.g, Len(calls)) /\ UNCHANGED <<update_idx, group_idx>>
       ELSE /\ raised' = raised
            /\ IF update_idx < Len(vertices)
               THEN /\ update_idx' = update_idx + 1
                    /\ pc' = "gate"
                    /\ UNCHANGED <<group_idx, snap>>
               ELSE update_idx' = update_idx /\ NextGroup

\* lines 75-82: the update is resolved against the stored priority
WriteVertex ==
    /\ pc = "write"
    /\ Resolved(ResolveUpdate(grid, vertices[update_idx], old_priority,
                              new_priorities[update_idx], updates[update_idx]))
    /\ UNCHANGED <<pose, global_scan, point_groups, fit, vertices, updates, new_priorities,
                   old_priority, result, calls>>

(***************************************************************************)
(* GetMapValueAndGradient                                                  *)
(***************************************************************************)
\* the call ends: r is the outcome of the four reads, out the outcome of
\* lines 404-547
Answer(r, out) ==
    /\ SetGrid(r.g)
    /\ accesses' = r.accesses
    /\ Return(r.g, Len(calls) + 1)
    /\ IF ~r.ok THEN raised' = "IndexError" /\ result' = result
       ELSE IF out.raised # "none" THEN raised' = out.raised /\ result' = result
       ELSE raised' = "none" /\ result' = out

\* lines 404-547 on the values read
Interpolate(r, m_points, point) ==
    Answer(r, IF r.ok THEN ValueAndGradient(r.m, m_points, point) ELSE NoResult)

\* lines 400-402 on the corners m_points
ReadAndInterpolate(m_points, point) ==
    Interpolate(ReadCorners(grid, m_points, 1, <<>>, <<>>), m_points, point)

GetMapValueAndGradient(point) ==
    /\ pc = "idle"
    /\ Len(calls) < MaxCalls
    /\ calls' = Append(calls, [op |-> "GetMapValueAndGradient", point |-> point])
    /\ ReadAndInterpolate(CornerPoints(point), point)
    /\ UNCHANGED locals

Next ==
    \/ \E in \in Inputs : UpdateMapBegin(in)
    \/ FitGroup
    \/ GateVertex
    \/ WriteVertex
    \/ \E point \in QueryPoints : GetMapValueAndGradient(point)

Spec == Init /\ [][Next]_vars

(***************************************************************************)
(* Properties.  Logical coordinates: the cell of the grid g at the logical *)
(* coordinate c = <<x, y>> is the array element at storage index           *)
(* <<x + offsets[0], y + offsets[1]>>.                                     *)
(***************************************************************************)
Exists(g, c) ==
    /\ 0 <= c[1] + g.offsets[1] /\ c[1] + g.offsets[1] < Len(g.map)
    /\ 0 <= c[2] + g.offsets[2] /\ c[2] + g.offsets[2] < Len(g.map[1])

\* the logical coordinates of the cells of g
Coords(g) ==
    {<<i - 1 - g.offsets[1], j - 1 - g.offsets[2]>> : i \in 1..Len(g.map), j \in 1..Len(g.map[1])}

DistanceAt(g, c) == g.map[c[1] + g.offsets[1] + 1][c[2] + g.offsets[2] + 1]

PriorityAt(g, c) == g.priorities[c[1] + g.offsets[1] + 1][c[2] + g.offsets[2] + 1]

\* the grid after the step
grid_next == [map |-> map', priorities |-> priorities', offsets |-> offsets']

\* the step resolves the update of the vertex v (lines 75-82)
Gating(v, P, D, Pn, Dn) ==
    IF Pn < P
    THEN DistanceAt(grid_next, v) = Dn /\ PriorityAt(grid_next, v) = Pn
    ELSE IF Pn = P
    THEN DistanceAt(grid_next, v) = RDiv(RAdd(D, Dn), RInt(2)) /\ PriorityAt(grid_next, v) = P
    ELSE DistanceAt(grid_next, v) = D /\ PriorityAt(grid_next, v) = P

\* C1: for every vertex that UpdateMap processes, with stored priority P
\* and distance D and an update of priority Pn and distance Dn: if Pn < P
\* the stored distance becomes Dn and the stored priority Pn; if Pn = P the
\* stored distance becomes (D + Dn) / 2 and the priority stays P; if Pn > P
\* both are unchanged
C1_PriorityGating ==
    [][pc = "write" =>
          Gating(vertices[update_idx],
                 PriorityAt(grid, vertices[update_idx]), DistanceAt(grid, vertices[update_idx]),
                 new_priorities[update_idx], updates[update_idx])]_vars

\* an update of equal priority was averaged with a different stored distance
C1_Witness ==
    /\ pc = "gate"
    /\ update_idx > 1
    /\ new_priorities[update_idx - 1] = old_priority
    /\ PriorityAt(grid, vertices[update_idx - 1]) = old_priority
    /\ DistanceAt(grid, vertices[update_idx - 1]) # updates[update_idx - 1]

\* the cells of the grid after the step that existed before it hold what
\* they held, and the new ones hold the defaults
GrowthPreserves ==
    /\ \A c \in Coords(grid) : Exists(grid_next, c)
    /\ \A c \in Coords(grid_next) :
           IF Exists(grid, c)
           THEN /\ DistanceAt(grid_next, c) = DistanceAt(grid, c)
                /\ PriorityAt(grid_next, c) = PriorityAt(grid, c)
           ELSE /\ DistanceAt(grid_next, c) = DefaultDistance
                /\ PriorityAt(grid_next, c) = DefaultPriority

\* C2: whenever ExpandMap grows the grid, every logical coordinate that
\* existed before the growth still maps to the same distance and the same
\* priority, and every new cell holds the defaults 0.1 and 100
C2_GrowthPreservesContent ==
    [][Shape(map') # Shape(map) => GrowthPreserves]_vars

\* during the second call the grid, which held measurements, has grown in
\* front and at the end of the x axis, and the cells kept their place
C2_Witness ==
    /\ Len(calls) = 2
    /\ offsets[1] > snap.offsets[1]
    /\ Len(map) - offsets[1] > Len(snap.map) - snap.offsets[1]
    /\ \E c \in Coords(snap) :
           /\ DistanceAt(snap, c) # DefaultDistance
           /\ DistanceAt(grid, c) = DistanceAt(snap, c)

\* C3: the priority stored at a logical coordinate never increases: for
\* every coordinate and every step the priority after the step is at most
\* the priority before it, with 100 for a cell that does not exist yet
C3_PriorityNeverIncreases ==
    [][\A c \in Coords(grid_next) :
           PriorityAt(grid_next, c) <= IF Exists(grid, c) THEN PriorityAt(grid, c)
                                       ELSE DefaultPriority]_vars

\* an update has lowered a priority that an earlier update had set
C3_Witness ==
    /\ pc = "gate"
    /\ update_idx > 1
    /\ old_priority < DefaultPriority
    /\ new_priorities[update_idx - 1] < old_priority
    /\ PriorityAt(grid, vertices[update_idx - 1]) = new_priorities[update_idx - 1]

\* C4: every read or write of a logical coordinate through GetMapValue,
\* SetMapValue, GetPriority or SetPriority accesses a storage index that is
\* in bounds, 0 <= x + offset_x < shape_x and 0 <= y + offset_y < shape_y
C4_AccessesInBounds ==
    \A n \in 1..Len(accesses) :
        /\ 0 <= accesses[n].ix /\ accesses[n].ix < accesses[n].sx
        /\ 0 <= accesses[n].iy /\ accesses[n].iy < accesses[n].sy

\* the first access of a run is at a negative logical coordinate, and the
\* grid has grown in front for it
C4_Witness ==
    /\ pc = "write"
    /\ Len(calls) = 1 /\ group_idx = 1 /\ update_idx = 1
    /\ vertices[1][1] < 0
    /\ Len(accesses) = 1
    /\ offsets[1] > 0
    /\ accesses[1].ix = vertices[1][1] + offsets[1]
    /\ accesses[1].sx > num_x_cells

(***************************************************************************)
(* The updates a call of UpdateMap generates (lines 56-62 for every        *)
(* group), each with the group it comes from.                              *)
(***************************************************************************)
UpdatesOfGroup(n, vs, dp) ==
    {[group |-> n, vertex |-> vs[i], priority |-> dp.priorities[i], distance |-> dp.updates[i]] :
        i \in 1..Len(vs)}

UpdatesOfVertices(n, f, vs, p) ==
    UpdatesOfGroup(n, vs, GetDistAndPriority(vs, f.A, f.b, p, f.points[1]))

UpdatesOfFit(n, f, p) == UpdatesOfVertices(n, f, GetUpdateVertices(f.A, f.points[1]), p)

UpdatesOfGroups(global, groups, p) ==
    UNION {UpdatesOfFit(n, LinearFit(global, groups[n], p), p) : n \in 1..Len(groups)}

UpdatesOfScan(global, p) == UpdatesOfGroups(global, GroupPointsByCell(global), p)

CallUpdates(call) == UpdatesOfScan(TransformScan(call.scan, call.pose), call.pose)

\* UpdateMap was called twice on the fresh map, with the same scan and pose,
\* and both calls have returned
RepeatedUpdate ==
    /\ pc = "idle"
    /\ raised = "none"
    /\ Len(calls) = 2
    /\ calls[1] = calls[2]
    /\ calls[1].op = "UpdateMap"

\* the priority stored at c after the first call is lower than or equal to
\* the priorities of the updates of U for c
Settled(U, c) == \A u \in U : u.vertex = c => PriorityAt(snap, c) <= u.priority

\* the updates of U for c at the priority stored after the first call all
\* carry one distance
OneDistance(U, c) ==
    \A u1, u2 \in U :
        (/\ u1.vertex = c /\ u1.priority = PriorityAt(snap, c)
         /\ u2.vertex = c /\ u2.priority = PriorityAt(snap, c)) => u1.distance = u2.distance

IdempotentUnder(U) ==
    \A c \in Coords(snap) : Settled(U, c) => DistanceAt(grid, c) = DistanceAt(snap, c)

IdempotentWhereOneDistance(U) ==
    \A c \in Coords(snap) :
        (Settled(U, c) /\ OneDistance(U, c)) => DistanceAt(grid, c) = DistanceAt(snap, c)

AveragedWithItself(U) ==
    \E u \in U :
        /\ u.priority = PriorityAt(snap, u.vertex)
        /\ u.distance = DistanceAt(snap, u.vertex)
        /\ u.distance = DistanceAt(grid, u.vertex)

\* C5: applying UpdateMap twice with the same scan and pose to a fresh map
\* leaves the stored distance of every vertex after the second call equal
\* to its stored distance after the first call, for all vertices whose
\* stored priority after the first call is lower than or equal to the
\* priorities of the updates they receive in the second call, for any scan
C5_Idempotent == RepeatedUpdate => IdempotentUnder(CallUpdates(calls[2]))

\* C5, amended: the same, for the vertices whose updates at the stored
\* priority all carry one distance
C5_IdempotentWhereOneDistance ==
    RepeatedUpdate => IdempotentWhereOneDistance(CallUpdates(calls[2]))

\* a scan of several groups was applied twice, and the second call averaged
\* an update with the equal distance the first call had stored
C5_Witness ==
    /\ RepeatedUpdate
    /\ Len(point_groups) > 1
    /\ AveragedWithItself(CallUpdates(calls[2]))

\* the corner values of the cell of point in the grid g
CornerValues(g, m_points) == [i \in 1..4 |-> DistanceAt(g, m_points[i])]

\* the last call was a query
QueryReturned ==
    /\ pc = "idle"
    /\ calls # <<>>
    /\ calls[Len(calls)].op = "GetMapValueAndGradient"

\* C6: GetMapValueAndGradient returns a (value, gradient) result for every
\* query point and every grid content and never ends in an error, also
\* when the cell takes the ambiguous-topology branch and the two
\* zero-crossing points coincide (one corner exactly 0, three negative)
C6_QueryAlwaysReturns == QueryReturned => raised = "none"

\* the corners of the cell of the query point
QueryCorners == CornerValues(grid, CornerPoints(calls[Len(calls)].point))

\* the query that does not return: one corner of the cell is exactly 0 and
\* the other three are negative
C6_SingularCell ==
    /\ QueryReturned
    /\ raised = "LinAlgError"
    /\ Cardinality({i \in 1..4 : QueryCorners[i] = RInt(0)}) = 1
    /\ Cardinality({i \in 1..4 : RLt(QueryCorners[i], RInt(0))}) = 3

\* the step is a call of GetMapValueAndGradient
QueryStep == Len(calls') > Len(calls) /\ calls'[Len(calls')].op = "GetMapValueAndGradient"

\* C7: a GetMapValueAndGradient call never changes the distance or the
\* priority stored at a logical coordinate that existed before the call;
\* its only effect on the grid is growth, which adds cells holding the
\* defaults, never decreases an array dimension and never decreases an
\* offset
C7_QueryOnlyGrows ==
    [][QueryStep =>
          /\ GrowthPreserves
          /\ Len(map') >= Len(map) /\ Len(map'[1]) >= Len(map[1])
          /\ Shape(priorities') = Shape(map')
          /\ offsets'[1] >= offsets[1] /\ offsets'[2] >= offsets[2]]_vars

\* the second call was a query that made the grid, which held
\* measurements, grow
C7_Witness ==
    /\ QueryReturned
    /\ Len(calls) = 2
    /\ Shape(map) # Shape(snap.map)
    /\ \E c \in Coords(snap) :
           /\ DistanceAt(snap, c) # DefaultDistance
           /\ DistanceAt(grid, c) = DistanceAt(snap, c)

\* the cell of a point: the floor of x / discretization and of y / discretization
CellOf(p) == <<RFloor(RDiv(p[1], disc)), RFloor(RDiv(p[2], disc))>>

\* the number of positions of the sequence q that hold v
Occurrences(q, v) == Cardinality({n \in DOMAIN q : q[n] = v})

RECURSIVE OccurrencesIn(_, _, _)
\* the number of positions of the groups 1..n that hold v
OccurrencesIn(groups, n, v) ==
    IF n = 0 THEN 0 ELSE Occurrences(groups[n], v) + OccurrencesIn(groups, n - 1, v)

\* the first scan position of a point of the cell
FirstOfCell(scan, cell) ==
    CHOOSE n \in DOMAIN scan :
        /\ CellOf(scan[n]) = cell
        /\ \A l \in DOMAIN scan : CellOf(scan[l]) = cell => n <= l

\* C8: GroupPointsByCell returns a partition of the scan by occupied cell:
\* every input point appears in exactly one group, no group is empty, two
\* points are in the same group if and only if they have the same bounding
\* cell, the groups are ordered by the scan position of their first point,
\* and that first point is the earliest scan point of the cell
C8_GroupsPartitionByCell ==
    /\ \A n \in DOMAIN point_groups : point_groups[n] # <<>>
    /\ \A n \in DOMAIN point_groups : \A l \in DOMAIN point_groups[n] :
           \E i \in DOMAIN global_scan : global_scan[i] = point_groups[n][l]
    /\ \A i \in DOMAIN global_scan :
           OccurrencesIn(point_groups, Len(point_groups), global_scan[i])
               = Occurrences(global_scan, global_scan[i])
    /\ \A n1, n2 \in DOMAIN point_groups :
           \A l1 \in DOMAIN point_groups[n1] : \A l2 \in DOMAIN point_groups[n2] :
               (n1 = n2) <=> (CellOf(point_groups[n1][l1]) = CellOf(point_groups[n2][l2]))
    /\ \A n \in DOMAIN point_groups :
           point_groups[n][1] = global_scan[FirstOfCell(global_scan, CellOf(point_groups[n][1]))]
    /\ \A n1, n2 \in DOMAIN point_groups :
           n1 < n2 => FirstOfCell(global_scan, CellOf(point_groups[n1][1]))
                          < FirstOfCell(global_scan, CellOf(point_groups[n2][1]))

\* a scan of three points was grouped: the first and the third share a
\* cell, the second lies in another
C8_Witness ==
    /\ pc = "fit"
    /\ Len(global_scan) = 3
    /\ Len(point_groups) = 2
    /\ point_groups[1] = <<global_scan[1], global_scan[3]>>
    /\ point_groups[2] = <<global_scan[2]>>

\* the scan holds a point other than g whose x and y each differ from
\* those of g by less than two cell widths
HasNeighbour(scan, g) ==
    \E i \in DOMAIN scan :
        /\ scan[i] # g
        /\ RLt(RAbs(RSub(scan[i][1], g[1])), RMul(RInt(2), disc))
        /\ RLt(RAbs(RSub(scan[i][2], g[2])), RMul(RInt(2), disc))

\* the line y = A x + b (b in cells) passes through the point p (in metres)
OnLine(A, b, p) == p[2] = RAdd(RMul(A, p[1]), RMul(b, disc))

\* the line y = A x + b through g is perpendicular to the segment from the
\* robot to g
Perpendicular(A, b, g, p) ==
    /\ OnLine(A, b, g)
    /\ RMul(A, RSub(g[2], p[2][3])) = RNeg(RSub(g[1], p[1][3]))

\* LinearFit has returned for the group at group_idx, which held the
\* single point g
FittedSingle(g) ==
    /\ pc \in {"gate", "write"}
    /\ GroupPointsByCell(global_scan)[group_idx] = <<g>>

\* what C9 says of the group of the single point g
BorrowsIffNeighbour(g) ==
    /\ point_groups[group_idx] = <<g>>
    /\ IF HasNeighbour(global_scan, g)
       THEN /\ fit.using_adjacent
            /\ OnLine(fit.A, fit.b, g)
            /\ \E i \in DOMAIN global_scan : global_scan[i] # g /\ OnLine(fit.A, fit.b, global_scan[i])
       ELSE /\ ~fit.using_adjacent
            /\ Perpendicular(fit.A, fit.b, g, pose)

\* C9: for a group with exactly one point g, LinearFit fits a two-point
\* line through g and a borrowed scan point if and only if the full scan
\* holds a point other than g whose x and y each differ from those of g by
\* less than two cell widths (a neighbour that shares x or y with g
\* included); otherwise it uses the perpendicular line.  The group holds
\* the single point g when LinearFit returns
C9_BorrowsNeighbourWithinTwoCells ==
    \A i \in DOMAIN global_scan :
        FittedSingle(global_scan[i]) => BorrowsIffNeighbour(global_scan[i])

\* the neighbour within two cell widths that shares the x coordinate of g
\* is not borrowed: the perpendicular line is fitted
C9_SameXNotBorrowed ==
    \E i, l \in DOMAIN global_scan :
        /\ FittedSingle(global_scan[i])
        /\ global_scan[l] # global_scan[i]
        /\ global_scan[l][1] = global_scan[i][1]
        /\ HasNeighbour(global_scan, global_scan[i])
        /\ ~fit.using_adjacent

\* the parameter t of the point r + t (v - r) where the ray from the robot
\* r through the vertex v meets the line y = A x + b, for a ray that is
\* not parallel to the line; all in cells
RayParameter(v, A, b, r) ==
    RDiv(RSub(RAdd(RMul(A, r[1]), b), r[2]),
         RSub(RSub(RInt(v[2]), r[2]), RMul(A, RSub(RInt(v[1]), r[1]))))

RayParallel(v, A, r) == RSub(RInt(v[2]), r[2]) = RMul(A, RSub(RInt(v[1]), r[1]))

\* the ray from the robot through the vertex meets the line nearer to the
\* robot than the vertex is
BeyondSurface(v, A, b, r) ==
    /\ ~RayParallel(v, A, r)
    /\ RLe(RInt(0), RayParameter(v, A, b, r))
    /\ RLt(RayParameter(v, A, b, r), RInt(1))

\* the robot position in cells
RobotCell(p) == <<RDiv(p[1][3], disc), RDiv(p[2][3], disc)>>

\* GetDistAndPriority has returned for the group at group_idx
UpdatesComputed == pc \in {"gate", "write"}

\* C10: for every selected vertex, whatever its position relative to the
\* robot, GetDistAndPriority returns a negative distance if and only if
\* the point where the ray from the robot through the vertex meets the
\* fitted line is nearer to the robot than the vertex is; otherwise the
\* distance is positive or zero
C10_NegativeIffBeyondSurface ==
    UpdatesComputed =>
        \A i \in DOMAIN vertices :
            RLt(updates[i], RInt(0)) <=> BeyondSurface(vertices[i], fit.A, fit.b, RobotCell(pose))

\* a vertex left of the robot that lies before the surface gets a
\* negative distance
C10_LeftOfRobotWrongSign ==
    /\ UpdatesComputed
    /\ \E i \in DOMAIN vertices :
           /\ RLt(RInt(vertices[i][1]), RobotCell(pose)[1])
           /\ RLt(updates[i], RInt(0))
           /\ ~BeyondSurface(vertices[i], fit.A, fit.b, RobotCell(pose))

====
